---- MODULE Spec2Model ----
(***************************************************************************)
(* A model of icon_skill: the prompt compiler, the image validator, the    *)
(* session store and the generate / edit orchestration of main.py.         *)
(*                                                                         *)
(* Texts are sequences of characters; the fixed blocks of a prompt (the    *)
(* preamble, a style guide, the replacement phrase, ...) are single atoms, *)
(* none of which contains a banned word or can complete one.               *)
(* An image is what PIL decodes: its size, its four corner pixels and the  *)
(* pixel data of its 256x256 nearest-neighbour downsample.                 *)
(* The session file and the artifacts are the files of the output          *)
(* directory.                                                              *)
(***************************************************************************)
EXTENDS Integers, Sequences, FiniteSets, TLC

VARIABLES
    session,    \* content of session_state.json
    files,      \* PNG artifacts of the output directory: path -> bytes
    meta,       \* sidecar records: path -> record
    clock,      \* datetime.now(), in seconds
    envKey,     \* os.environ.get("OPENAI_API_KEY")
    nfaults,    \* backend calls so far that failed or returned a flawed image
    pc,         \* per process: position in the running command
    cmd,        \* per process: the command line
    loc,        \* per process: local variables of _generate / _edit
    last,       \* per process: how the last command ended
    reqlog,     \* per process: generation requests of the running command
    vimg, vpc, vresult, vran,   \* one validation pass, check by check
    sops,       \* session-store calls made so far (SpecStore)
    ptext,      \* the text given to the prompt compiler (SpecPrompt)
    pcalls      \* calls of the prompt compiler made so far (SpecPrompt)

vars == <<session, files, meta, clock, envKey, nfaults, pc, cmd, loc, last,
          reqlog, vimg, vpc, vresult, vran, sops, ptext, pcalls>>

None == "None"

----------------------------------------------------------------------------
(* Bounds of the model *)

MaxHistory == 2
MaxFaults == 2
MaxClock == 1
MaxVariants == 2
MaxOps == 3
MaxChunks == 2
MaxCalls == 2
MaxPrompts == 4

----------------------------------------------------------------------------
(* prompt_compiler.py *)

CONSTRAINTS_PREAMBLE == <<"PREAMBLE">>

VARIANT_GUIDES == <<"GUIDE-balanced", "GUIDE-layered", "GUIDE-crescent">>

petal == <<"p", "e", "t", "a", "l">>
petals == <<"p", "e", "t", "a", "l", "s">>

BANNED_WORDS == {petal, petals}

\* The orders in which a Python set of the two words may be traversed.
BannedOrders == {<<petal, petals>>, <<petals, petal>>}

REPLACEMENT == <<"rounded leaf-like form">>

\* re.IGNORECASE on the letters of the alphabet used here.
Lower(c) ==
    CASE c = "P" -> "p" [] c = "E" -> "e" [] c = "T" -> "t"
      [] c = "A" -> "a" [] c = "L" -> "l" [] c = "S" -> "s"
      [] c = "X" -> "x" [] OTHER -> c

MatchAt(text, word) ==
    /\ Len(text) >= Len(word)
    /\ \A k \in 1..Len(word) : Lower(text[k]) = word[k]

\* pattern.sub(repl, text): leftmost non-overlapping matches, left to right.
\* A substitution that stops after the first match
SubFirst(text, word, repl) ==
    IF \E k \in 1..Len(text) : MatchAt(SubSeq(text, k, Len(text)), word)
    THEN LET k == CHOOSE k \in 1..Len(text) :
                    /\ MatchAt(SubSeq(text, k, Len(text)), word)
                    /\ \A j \in 1..(k - 1) : ~MatchAt(SubSeq(text, j, Len(text)), word)
         IN  SubSeq(text, 1, k - 1) \o repl \o SubSeq(text, k + Len(word), Len(text))
    ELSE text

RECURSIVE Sub(_, _, _)
Sub(text, word, repl) ==
    IF Len(text) = 0 THEN <<>>
    ELSE IF MatchAt(text, word)
         THEN repl \o Sub(SubSeq(text, Len(word) + 1, Len(text)), word, repl)
         ELSE <<text[1]>> \o Sub(Tail(text), word, repl)

RECURSIVE sanitize(_, _)
sanitize(text, order) ==
    IF order = <<>> THEN text
    ELSE sanitize(Sub(text, order[1], REPLACEMENT), Tail(order))

\* A choice of guide that stays on the last one
GuideIndexLast(i) ==
    IF i < Len(VARIANT_GUIDES) THEN i + 1 ELSE Len(VARIANT_GUIDES)

\* line 65: VARIANT_GUIDES[i % len(VARIANT_GUIDES)], as a position from 1
GuideIndex(i) == (i % Len(VARIANT_GUIDES)) + 1

build_prompts(description, num_variants, order) ==
    [k \in 1..num_variants |->
        LET i == k - 1
            guide == VARIANT_GUIDES[GuideIndex(i)]
            raw == CONSTRAINTS_PREAMBLE \o <<"NL", guide, "NL", "NL", "SUBJECT: ">>
                     \o description
        IN  sanitize(raw, order)]

build_edit_prompt(change_request, order) ==
    sanitize(<<"ABBREVIATED", "NL", "NL", "REQUESTED CHANGE: ">> \o change_request,
             order)

strengthened_suffix == <<"NL", "NL", "CRITICAL REMINDER">>

----------------------------------------------------------------------------
(* validators.py *)

CanvasSize == 1024
CornerMax == 1023
AlphaThreshold == 10
FailColors == 20
WarnColors == 5

ValidationResult == [passed |-> TRUE, warnings |-> <<>>, errors |-> <<>>]

\* A verdict that a warning spoils
okNoWarnings(result) ==
    result.passed /\ result.errors = <<>> /\ result.warnings = <<>>

\* lines 23-25: return self.passed and not self.errors
ok(result) == result.passed /\ result.errors = <<>>

check_size(img, result) ==
    IF img.size # <<CanvasSize, CanvasSize>>
    THEN [result EXCEPT !.passed = FALSE,
                        !.errors = Append(@, <<"size", img.size[1], img.size[2]>>)]
    ELSE result

corners ==
    << <<<<0, 0>>, "top-left">>, <<<<CornerMax, 0>>, "top-right">>,
       <<<<0, CornerMax>>, "bottom-left">>, <<<<CornerMax, CornerMax>>, "bottom-right">> >>

\* rgba.getpixel((x, y)) for a corner
getpixel(img, k) == img.corners[k]

\* A corner check that lets a black corner pass whatever its alpha
CornerBadUnlessBlack(pixel) ==
    pixel[4] > AlphaThreshold /\ <<pixel[1], pixel[2], pixel[3]>> # <<0, 0, 0>>

\* line 48: if alpha > 10
CornerBad(pixel) == pixel[4] > AlphaThreshold

RECURSIVE CornerLoop(_, _, _)
CornerLoop(img, result, k) ==
    IF k > Len(corners) THEN result
    ELSE LET pixel == getpixel(img, k)
             next == IF CornerBad(pixel)
                     THEN [result EXCEPT !.passed = FALSE,
                               !.errors = Append(@, <<"corner", corners[k][2],
                                                      corners[k][1], pixel>>)]
                     ELSE result
         IN  CornerLoop(img, next, k + 1)

check_corners(img, result) == CornerLoop(img, result, 1)

\* A palette check that counts the colours of every pixel, transparent ones too
opaque_colors_all(img) ==
    {<<img.data[n][1], img.data[n][2], img.data[n][3]>> : n \in 1..Len(img.data)}

\* lines 64-67: the RGB triples of the pixels with alpha > 10
opaque_colors(img) ==
    {<<img.data[n][1], img.data[n][2], img.data[n][3]>> :
        n \in {m \in 1..Len(img.data) : img.data[m][4] > AlphaThreshold}}

check_color_count(img, result) ==
    LET colors == Cardinality(opaque_colors(img))
    IN  IF colors > FailColors
        THEN [result EXCEPT !.passed = FALSE,
                            !.errors = Append(@, <<"too-many-colors", colors>>)]
        ELSE IF colors > WarnColors
        THEN [result EXCEPT !.warnings = Append(@, <<"color-count", colors>>)]
        ELSE result

\* A validator that checks the corners of every image
RunCornersAlways(img) == TRUE

\* line 85: the corner check runs only on a 1024x1024 image
RunCorners(img) == img.size = <<CanvasSize, CanvasSize>>

validate(img) ==
    LET r1 == check_size(img, ValidationResult)
        r2 == IF RunCorners(img) THEN check_corners(img, r1) ELSE r1
    IN  check_color_count(img, r2)

----------------------------------------------------------------------------
(* Images the backend may return, as PIL decodes them *)

Transparent == <<0, 0, 0, 0>>
Red == <<255, 0, 0, 255>>

\* n pixels of n distinct opaque colours
Palette(n) == [k \in 1..n |-> <<k, 0, 0, 255>>]

MkImage(size, cs, data) == [size |-> size, corners |-> cs, data |-> data]

ClearCorners == <<Transparent, Transparent, Transparent, Transparent>>

ImageNames == {"good", "warn", "small"}

\* Image.open(path) on the bytes the backend returned
Decode(bytes) ==
    CASE bytes.img = "good" ->
            MkImage(<<CanvasSize, CanvasSize>>, ClearCorners, <<Transparent, Red, Red>>)
      [] bytes.img = "warn" ->
            MkImage(<<CanvasSize, CanvasSize>>, ClearCorners, Palette(6))
      [] OTHER ->
            MkImage(<<512, 512>>, ClearCorners, <<Transparent, Red>>)

----------------------------------------------------------------------------
(* storage.py *)

Put(f, k, x) == [kk \in DOMAIN f \cup {k} |-> IF kk = k THEN x ELSE f[kk]]

\* _slugify on texts of word characters: lower-cased, cut to max_len
SlugMax == 40

slugify(text) ==
    LET low == [k \in 1..Len(text) |-> Lower(text[k])]
    IN  IF Len(low) > SlugMax THEN SubSeq(low, 1, SlugMax) ELSE low

OutDir == "out"

\* "<stamp>_<slug>_v<variant_index>.png": the stem is kept as (base, edit suffix),
\* edit = 0 standing for a stem without an _edit<N> suffix.
build_filename(description, variant_index, now) ==
    [base |-> <<now, slugify(description), variant_index>>, edit |-> 0]

\* re.sub(r"_edit\d+$", "", stem) + "_edit<N>.png"
build_edit_filename(source_path, edit_number) ==
    [base |-> source_path.base, edit |-> edit_number]

\* save_image: the path of a file name in the output directory
OutPath(filename) == [dir |-> OutDir, base |-> filename.base, edit |-> filename.edit]

\* save_image: path.write_bytes(image_bytes) on the files of the directory
save_image(fs, path, image_bytes) == Put(fs, path, image_bytes)

save_metadata(output_path, user_intent, compiled_prompt, model, variant_index, parent_image, now) ==
    [user_intent |-> user_intent, compiled_prompt |-> compiled_prompt,
     model |-> model, created_at |-> now, variant_index |-> variant_index,
     parent_image |-> parent_image, output_path |-> output_path]

(* Session state.  A value read from the file is a Python value: a dict (its
   keys and values in d) or something else that json.loads accepts. *)

PyDict(d) == [t |-> "dict", d |-> d]
PyOther == [t |-> "list", d |-> <<>>]

IsDict(v) == v.t = "dict"
HasKey(v, k) == IsDict(v) /\ k \in DOMAIN v.d

DefaultState ==
    PyDict([last_generated |-> <<>>, last_description |-> <<>>, last_model |-> "",
            edit_count |-> 0, history |-> <<>>])

MissingFile == [kind |-> "missing"]
JsonFile(v) == [kind |-> "json", val |-> v]

\* The exceptions load_session catches around read_text and json.loads.
Caught(kind) == kind \in {"JSONDecodeError", "OSError"}

\* What reading and parsing a file of each kind raises, None when nothing.
ReadRaises(file) ==
    CASE file.kind = "garbage" -> "JSONDecodeError"
      [] file.kind = "unreadable" -> "OSError"
      [] file.kind = "badutf8" -> "UnicodeDecodeError"
      [] OTHER -> None

Returned(v) == [raised |-> None, state |-> v]
Raised(e) == [raised |-> e, state |-> PyOther]

load_session(file) ==
    IF file.kind = "missing" THEN Returned(DefaultState)
    ELSE IF ReadRaises(file) = None THEN Returned(file.val)
    ELSE IF Caught(ReadRaises(file)) THEN Returned(DefaultState)
    ELSE Raised(ReadRaises(file))

save_session(state) == JsonFile(state)

\* state.get("edit_count", 0)
GetEditCount(state) == IF HasKey(state, "edit_count") THEN state.d["edit_count"] ELSE 0

\* An edit numbered by the length of the history
EditNumByHistory(state) ==
    IF HasKey(state, "history") THEN Len(state.d["history"]) + 1 ELSE 1

\* main.py line 70
EditNum(state) == GetEditCount(state) + 1

\* A store that forgets the count it loaded
NewEditCountForgets(state) == 0 + 1

\* storage.py line 128
NewEditCount(state) == GetEditCount(state) + 1

\* A generate that carries the count of edits over
ResetEditCountKeeps(state) == GetEditCount(state)

\* storage.py line 113: state["edit_count"] = 0
ResetEditCount(state) == 0

GenerateEntry(paths, description, now) ==
    [action |-> "generate", description |-> description, paths |-> paths,
     timestamp |-> now]

EditEntry(path, change, now) ==
    [action |-> "edit", change |-> change, path |-> path, timestamp |-> now]

\* A store that keeps only the newest entry
AppendHistoryReplaces(history, entry) == <<entry>>

\* state["history"].append(entry)
AppendHistory(history, entry) == Append(history, entry)

\* update_session_after_generate, from the loaded state to the saved one
after_generate(state, paths, description, model, now) ==
    IF ~IsDict(state) THEN Raised("TypeError")
    ELSE IF ~HasKey(state, "history") THEN Raised("KeyError")
    ELSE Returned(PyDict(
            Put(Put(Put(Put(Put(state.d,
                "last_generated", paths),
                "last_description", description),
                "last_model", model),
                "edit_count", ResetEditCount(state)),
                "history", AppendHistory(state.d["history"],
                                         GenerateEntry(paths, description, now)))))

\* update_session_after_edit, from the loaded state to the saved one
after_edit(state, path, change, now) ==
    IF ~IsDict(state) THEN Raised("AttributeError")
    ELSE IF ~HasKey(state, "history") THEN Raised("KeyError")
    ELSE Returned(PyDict(
            Put(Put(Put(state.d,
                "edit_count", NewEditCount(state)),
                "last_generated", <<path>>),
                "history", AppendHistory(state.d["history"],
                                         EditEntry(path, change, now)))))

\* _set_key, from the loaded state to the saved one
after_set_key(state, key) ==
    IF ~IsDict(state) THEN Raised("TypeError")
    ELSE Returned(PyDict(Put(state.d, "api_key", key)))

----------------------------------------------------------------------------
(* openai_client.py *)

DEFAULT_MODEL == "gpt-image-1"

\* OPENAI_IMAGE_MODEL is not set
get_model(model) == IF model # None THEN model ELSE DEFAULT_MODEL

Truthy(key) == key # None /\ key # ""

\* get_client: the key used, None when a ValueError is raised
ResolveKey(api_key, env, file) ==
    IF Truthy(api_key) THEN Returned(api_key)
    ELSE IF Truthy(env) THEN Returned(env)
    ELSE LET l == load_session(file)
         IN  IF l.raised # None THEN l
             ELSE IF ~IsDict(l.state) THEN Raised("AttributeError")
             ELSE IF HasKey(l.state, "api_key") /\ Truthy(l.state.d["api_key"])
                  THEN Returned(l.state.d["api_key"])
                  ELSE Raised("ValueError")

\* A retry loop that retries a second time
MayRetryTwice(attempt) == attempt <= 1

\* "if attempt == 0: sleep, continue" of the retry loop
MayRetry(attempt) == attempt = 0


----------------------------------------------------------------------------
(* main.py: the generate and edit commands, one process per invocation *)

Procs == {1, 2}

\* The inputs of the commands
Descriptions == {<<"X">>}
Changes == {<<"x">>}
ModelArgs == {None}
KeyArgs == {"sk-session"}
EnvKeys == {None, "", "sk-env"}
ApiKeyArgs == {None, "", "sk-arg"}

\* A file outside the output directory, and a path that names no file
ExternalPath == [dir |-> "ext", base |-> <<-1, <<"photo">>, 0>>, edit |-> 0]
AbsentPath == [dir |-> "ext", base |-> <<-1, <<"absent">>, 0>>, edit |-> 0]

\* No path (Python's None where a path is expected) and no bytes
NoPath == [dir |-> "none", base |-> <<-1, <<>>, 0>>, edit |-> 0]
NoBytes == [img |-> "none", prompt |-> <<>>]

\* Path(source_path).exists()
Exists(path, fs) == path \in DOMAIN fs \/ path = ExternalPath

BlankCmd == [kind |-> None]

BlankLoc ==
    [prompts |-> <<>>, i |-> 0, saved_paths |-> <<>>, phase |-> None, attempt |-> 0,
     path |-> NoPath, source |-> NoPath, edit_num |-> 0, prompt |-> <<>>,
     state |-> PyOther]

\* The prompt of the retry after a failed validation
Stronger(prompt) == prompt \o strengthened_suffix

\* An orchestrator that never retries after a failed validation
NeedsRetryNever(result) == FALSE

\* "if not result.ok": the validation retry is made
NeedsRetry(result) == ~ok(result)

\* A retry that writes its bytes to a file of its own
write_bytes_aside(fs, path, image_bytes) ==
    Put(fs, [path EXCEPT !.edit = -1], image_bytes)

\* lines 36 and 94: path.write_bytes(image_bytes), over the first attempt's file
write_bytes(fs, path, image_bytes) == Put(fs, path, image_bytes)

\* A list of saved paths with the newest first
RecordPathFront(saved_paths, path) == <<path>> \o saved_paths

\* line 49: saved_paths.append(str(path))
RecordPath(saved_paths, path) == Append(saved_paths, path)

\* The prompt the next generation request sends
CurrentPrompt(p) ==
    LET base == IF cmd[p].kind = "generate" THEN loc[p].prompts[loc[p].i]
                ELSE loc[p].prompt
    IN  IF loc[p].phase = "retry" THEN Stronger(base) ELSE base

\* The variables of the validation pass and of the store calls stay as they are
Apart == UNCHANGED <<vimg, vpc, vresult, vran, sops, ptext, pcalls>>

Fail(p, how) ==
    /\ pc' = [pc EXCEPT ![p] = "failed"]
    /\ last' = [last EXCEPT ![p] = how]

\* The newest of the paths of the last command
LastOf(paths) == paths[Len(paths)]

\* line 63: state["last_generated"][0]
FirstOf(paths) == paths[1]

\* lines 58-67: the source of an edit, or the error
ResolveSource(source_path, file, fs) ==
    LET l == load_session(file)
        src == IF source_path # NoPath THEN Returned(source_path)
               ELSE IF l.raised # None THEN l
               ELSE IF ~HasKey(l.state, "last_generated") THEN Raised("KeyError")
               ELSE IF l.state.d["last_generated"] = <<>> THEN Raised("no_source")
               ELSE Returned(FirstOf(l.state.d["last_generated"]))
    IN  IF src.raised # None THEN src
        ELSE IF ~Exists(src.state, fs) THEN Raised("source_not_found")
        ELSE src

CmdGenerate(p, description, variants, model, order) ==
    /\ pc[p] = "idle"
    /\ cmd' = [cmd EXCEPT ![p] = [kind |-> "generate", description |-> description,
                                  variants |-> variants, model |-> model]]
    /\ loc' = [loc EXCEPT ![p] = [BlankLoc EXCEPT
                    !.prompts = build_prompts(description, variants, order),
                    !.i = 1, !.phase = "first"]]
    /\ pc' = [pc EXCEPT ![p] = "request"]
    /\ reqlog' = [reqlog EXCEPT ![p] = <<>>]
    /\ UNCHANGED <<session, files, meta, clock, envKey, nfaults, last>>
    /\ Apart

\* The edit prompt is a function of the change request and of the order in which
\* this process traverses its set of banned words: it is held from the start of
\* the command, where that order is drawn, and sent by the requests of line 74 on.
CmdEdit(p, change, source_path, model, order) ==
    /\ pc[p] = "idle"
    /\ cmd' = [cmd EXCEPT ![p] = [kind |-> "edit", change |-> change,
                                  source |-> source_path, model |-> model]]
    /\ reqlog' = [reqlog EXCEPT ![p] = <<>>]
    /\ LET src == ResolveSource(source_path, session, files)
       IN  /\ loc' = [loc EXCEPT ![p] = [BlankLoc EXCEPT
                        !.source = IF src.raised = None THEN src.state ELSE NoPath,
                        !.prompt = IF src.raised = None
                                   THEN build_edit_prompt(change, order) ELSE <<>>]]
           /\ IF src.raised = None
              THEN /\ pc' = [pc EXCEPT ![p] = "edit_count"]
                   /\ UNCHANGED last
              ELSE Fail(p, src.raised)
    /\ UNCHANGED <<session, files, meta, clock, envKey, nfaults>>
    /\ Apart

\* lines 69-70: the edit number
EditCount(p) ==
    /\ pc[p] = "edit_count"
    /\ LET l == load_session(session)
       IN  IF l.raised # None \/ ~IsDict(l.state)
           THEN /\ Fail(p, IF l.raised # None THEN l.raised ELSE "AttributeError")
                /\ UNCHANGED loc
           ELSE /\ loc' = [loc EXCEPT ![p].edit_num = EditNum(l.state),
                                      ![p].phase = "first"]
                /\ pc' = [pc EXCEPT ![p] = "request"]
                /\ UNCHANGED last
    /\ UNCHANGED <<session, files, meta, clock, envKey, nfaults, cmd, reqlog>>
    /\ Apart

\* generate_image / edit_image up to the retry loop: the client is created
Request(p) ==
    /\ pc[p] = "request"
    /\ LET key == ResolveKey(None, envKey, session)
           entry == [variant |-> loc[p].i, prompt |-> CurrentPrompt(p), calls |-> <<>>,
                     outcome |-> IF key.raised = None THEN "pending" ELSE "config",
                     valid |-> "none", path |-> NoPath, bytes |-> NoBytes]
       IN  /\ reqlog' = [reqlog EXCEPT ![p] = Append(@, entry)]
           /\ IF key.raised = None
              THEN /\ pc' = [pc EXCEPT ![p] = "backend"]
                   /\ loc' = [loc EXCEPT ![p].attempt = 0]
                   /\ UNCHANGED last
              ELSE /\ Fail(p, key.raised)
                   /\ UNCHANGED loc
    /\ UNCHANGED <<session, files, meta, clock, envKey, nfaults, cmd>>
    /\ Apart

\* A loop that records the paths saved so far in the session as it goes
SessionDuringSaved(file, paths) ==
    save_session(PyDict(Put(load_session(file).state.d, "last_generated", paths)))

\* main.py lines 15-50 and 72-102: between the start of a command and its call of
\* update_session_after_generate / _edit nothing writes the session file
SessionDuring(file, paths) == file

\* The variant or the edit is over: the next variant, or the session update
Advance(l, kind) ==
    IF kind = "generate" /\ l.i < Len(l.prompts)
    THEN [l EXCEPT !.i = @ + 1, !.phase = "first", !.path = NoPath]
    ELSE l

\* One call of the backend inside the retry loop, and all that follows a success:
\* the bytes are saved (first attempt) or written over the path (validation retry),
\* the file is validated and the variant either retried or recorded.
BackendCall(p, outcome) ==
    /\ pc[p] = "backend"
    /\ LET n == Len(reqlog[p])
           e == reqlog[p][n]
           kind == cmd[p].kind
           l == loc[p]
       IN  IF outcome = "APIError"
           THEN /\ UNCHANGED <<session, files, meta>>
                /\ IF MayRetry(l.attempt)
                   THEN /\ loc' = [loc EXCEPT ![p].attempt = @ + 1]
                        /\ reqlog' = [reqlog EXCEPT ![p][n].calls = Append(@, "APIError")]
                        /\ UNCHANGED <<pc, last>>
                   ELSE /\ reqlog' = [reqlog EXCEPT ![p][n].calls = Append(@, "APIError"),
                                                    ![p][n].outcome = "fatal"]
                        /\ Fail(p, "backend_error")
                        /\ UNCHANGED loc
           ELSE LET bytes == [img |-> outcome, prompt |-> e.prompt]
                    path == IF l.phase = "retry" THEN l.path
                            ELSE IF kind = "generate"
                            THEN OutPath(build_filename(cmd[p].description, l.i, clock))
                            ELSE OutPath(build_edit_filename(l.source, l.edit_num))
                    fs == IF l.phase = "retry" THEN write_bytes(files, path, bytes)
                          ELSE save_image(files, path, bytes)
                    result == validate(Decode(fs[path]))
                    retry == l.phase = "first" /\ NeedsRetry(result)
                    l1 == [l EXCEPT !.path = path]
                    l2 == [l1 EXCEPT !.saved_paths = RecordPath(@, path)]
               IN  /\ files' = fs
                   /\ meta' = IF l.phase = "retry" THEN meta
                              ELSE Put(meta, path,
                                       save_metadata(path,
                                           IF kind = "generate" THEN cmd[p].description
                                           ELSE cmd[p].change,
                                           IF kind = "generate" THEN l.prompts[l.i]
                                           ELSE l.prompt,
                                           get_model(cmd[p].model),
                                           IF kind = "generate" THEN l.i ELSE 0,
                                           IF kind = "generate" THEN NoPath ELSE l.source,
                                           clock))
                   /\ reqlog' = [reqlog EXCEPT ![p][n].calls = Append(@, "ok"),
                                               ![p][n].outcome = "ok",
                                               ![p][n].valid = IF ok(result) THEN "ok" ELSE "bad",
                                               ![p][n].path = path,
                                               ![p][n].bytes = bytes]
                   /\ IF retry
                      THEN /\ loc' = [loc EXCEPT ![p] = [l1 EXCEPT !.phase = "retry"]]
                           /\ pc' = [pc EXCEPT ![p] = "request"]
                      ELSE /\ loc' = [loc EXCEPT ![p] = Advance(l2, kind)]
                           /\ pc' = [pc EXCEPT ![p] =
                                  IF kind = "generate" /\ l.i < Len(l.prompts)
                                  THEN "request" ELSE "update_load"]
                   /\ session' = SessionDuring(session, l2.saved_paths)
                   /\ UNCHANGED last
    /\ nfaults' = IF outcome = "good" THEN nfaults ELSE nfaults + 1
    /\ UNCHANGED <<clock, envKey, cmd>>
    /\ Apart

\* update_session_after_generate / _edit: state = load_session()
UpdateLoad(p) ==
    /\ pc[p] = "update_load"
    /\ LET l == load_session(session)
       IN  IF l.raised # None
           THEN Fail(p, l.raised) /\ UNCHANGED loc
           ELSE /\ loc' = [loc EXCEPT ![p].state = l.state]
                /\ pc' = [pc EXCEPT ![p] = "update_save"]
                /\ UNCHANGED last
    /\ UNCHANGED <<session, files, meta, clock, envKey, nfaults, cmd, reqlog>>
    /\ Apart

\* An update that reads the file again at the moment it writes
LoadedStateFresh(l, file) == load_session(file).state

\* The state an update changes and saves: the one its load_session() returned
LoadedState(l, file) == l.state

\* update_session_after_generate / _edit: the state is changed and saved
UpdateSave(p) ==
    /\ pc[p] = "update_save"
    /\ LET l == loc[p]
           r == IF cmd[p].kind = "generate"
                THEN after_generate(LoadedState(l, session), l.saved_paths,
                                    cmd[p].description,
                                    get_model(cmd[p].model), clock)
                ELSE after_edit(LoadedState(l, session), l.path, cmd[p].change, clock)
       IN  IF r.raised # None
           THEN Fail(p, r.raised) /\ UNCHANGED session
           ELSE /\ session' = save_session(r.state)
                /\ pc' = [pc EXCEPT ![p] = "done"]
                /\ last' = [last EXCEPT ![p] = "ok"]
    /\ UNCHANGED <<files, meta, clock, envKey, nfaults, cmd, loc, reqlog>>
    /\ Apart

\* _set_key
CmdSetKey(p, key) ==
    /\ pc[p] = "idle"
    /\ cmd' = [cmd EXCEPT ![p] = [kind |-> "set-key", key |-> key]]
    /\ loc' = [loc EXCEPT ![p] = BlankLoc]
    /\ reqlog' = [reqlog EXCEPT ![p] = <<>>]
    /\ LET l == load_session(session)
           r == IF l.raised # None THEN l ELSE after_set_key(l.state, key)
       IN  IF r.raised # None
           THEN Fail(p, r.raised) /\ UNCHANGED session
           ELSE /\ session' = save_session(r.state)
                /\ pc' = [pc EXCEPT ![p] = "done"]
                /\ last' = [last EXCEPT ![p] = "ok"]
    /\ UNCHANGED <<files, meta, clock, envKey, nfaults>>
    /\ Apart

\* The process exits (or the REPL reads its next line)
Return(p) ==
    /\ pc[p] \in {"done", "failed"}
    /\ pc' = [pc EXCEPT ![p] = "idle"]
    /\ cmd' = [cmd EXCEPT ![p] = BlankCmd]
    /\ loc' = [loc EXCEPT ![p] = BlankLoc]
    /\ reqlog' = [reqlog EXCEPT ![p] = <<>>]
    /\ last' = [last EXCEPT ![p] = None]
    /\ UNCHANGED <<session, files, meta, clock, envKey, nfaults>>
    /\ Apart

\* Time passes
Tick ==
    /\ clock' = clock + 1
    /\ UNCHANGED <<session, files, meta, envKey, nfaults, pc, cmd, loc, last,
                   reqlog>>
    /\ Apart

AllIdle == \A q \in Procs : pc[q] = "idle"

\* The explicit sources an edit may be given
Sources == {NoPath, ExternalPath, AbsentPath} \cup DOMAIN files

VNone == [size |-> <<0, 0>>, corners |-> <<>>, data |-> <<>>]

PromptIdle == ptext = <<>> /\ pcalls = <<>>

ValidatorIdle ==
    /\ vimg = VNone
    /\ vpc = "off"
    /\ vresult = ValidationResult
    /\ vran = <<>>

Init ==
    /\ session = MissingFile
    /\ files = <<>>
    /\ meta = <<>>
    /\ clock = 0
    /\ envKey = None
    /\ nfaults = 0
    /\ pc = [p \in Procs |-> "idle"]
    /\ cmd = [p \in Procs |-> BlankCmd]
    /\ loc = [p \in Procs |-> BlankLoc]
    /\ last = [p \in Procs |-> None]
    /\ reqlog = [p \in Procs |-> <<>>]
    /\ ValidatorIdle
    /\ sops = <<>>
    /\ PromptIdle

\* The backend's answers: an image, or an APIError
Outcomes == ImageNames \cup {"APIError"}

\* The history of the session on disk
History(file) ==
    IF file.kind = "json" /\ HasKey(file.val, "history") THEN file.val.d["history"]
    ELSE <<>>

\* Commands run one at a time (a single process at work), until the history holds
\* MaxHistory entries.  The backend fails, or returns a flawed image, at most
\* MaxFaults times, and no command is started after it has: the faults of a run
\* are those of its last command.
CanStart == AllIdle /\ nfaults = 0 /\ Len(History(session)) < MaxHistory

Next ==
    \/ CanStart /\ \E d \in Descriptions, n \in 1..MaxVariants, m \in ModelArgs,
                       o \in BannedOrders : CmdGenerate(1, d, n, m, o)
    \/ CanStart /\ \E c \in Changes, s \in Sources, m \in ModelArgs,
                       o \in BannedOrders : CmdEdit(1, c, s, m, o)
    \/ CanStart /\ \E k \in KeyArgs : CmdSetKey(1, k)
    \/ EditCount(1)
    \/ Request(1)
    \/ \E out \in Outcomes :
          (out = "good" \/ nfaults < MaxFaults) /\ BackendCall(1, out)
    \/ UpdateLoad(1)
    \/ UpdateSave(1)
    \/ Return(1)
    \/ AllIdle /\ clock < MaxClock /\ Tick

Spec == Init /\ [][Next]_vars

----------------------------------------------------------------------------
(* One validation pass, check by check (validators.validate) *)

CornerPixels == {Transparent, <<0, 0, 0, 255>>, <<255, 255, 255, 10>>, <<9, 9, 9, 11>>}

TestSizes == {<<CanvasSize, CanvasSize>>, <<512, 512>>, <<CanvasSize, 512>>}

ColorCounts == {0, 1, 5, 6, 12, 20, 21, 25}

\* Pixel data with n distinct opaque colours: the colours, two pixels that are
\* not opaque, and the first colour again, once as it is and once half opaque.
MkData(n) ==
    Palette(n) \o <<Transparent, <<7, 7, 7, 10>>>>
        \o (IF n > 0 THEN <<Palette(n)[1], <<1, 0, 0, 128>>>> ELSE <<>>)

TestImages ==
    {MkImage(sz, <<c1, c2, c3, c4>>, MkData(n)) :
        sz \in TestSizes, c1 \in CornerPixels, c2 \in CornerPixels,
        c3 \in CornerPixels, c4 \in CornerPixels, n \in ColorCounts}

OrchestratorIdle ==
    /\ files = <<>>
    /\ meta = <<>>
    /\ clock = 0
    /\ envKey = None
    /\ nfaults = 0
    /\ pc = [p \in Procs |-> "idle"]
    /\ cmd = [p \in Procs |-> BlankCmd]
    /\ loc = [p \in Procs |-> BlankLoc]
    /\ last = [p \in Procs |-> None]
    /\ reqlog = [p \in Procs |-> <<>>]

orchVars == <<session, files, meta, clock, envKey, nfaults, pc, cmd, loc,
              last, reqlog>>

InitValidate ==
    /\ OrchestratorIdle
    /\ session = MissingFile
    /\ sops = <<>>
    /\ PromptIdle
    /\ vimg \in TestImages
    /\ vpc = "size"
    /\ vresult = ValidationResult
    /\ vran = <<>>

\* line 84
ValSize ==
    /\ vpc = "size"
    /\ vresult' = check_size(vimg, vresult)
    /\ vran' = Append(vran, "size")
    /\ vpc' = "corners"
    /\ UNCHANGED <<orchVars, sops, vimg, ptext, pcalls>>

\* lines 85-86
ValCorners ==
    /\ vpc = "corners"
    /\ IF RunCorners(vimg)
       THEN /\ vresult' = check_corners(vimg, vresult)
            /\ vran' = Append(vran, "corners")
       ELSE UNCHANGED <<vresult, vran>>
    /\ vpc' = "palette"
    /\ UNCHANGED <<orchVars, sops, vimg, ptext, pcalls>>

\* line 87
ValPalette ==
    /\ vpc = "palette"
    /\ vresult' = check_color_count(vimg, vresult)
    /\ vran' = Append(vran, "palette")
    /\ vpc' = "done"
    /\ UNCHANGED <<orchVars, sops, vimg, ptext, pcalls>>

NextValidate == ValSize \/ ValCorners \/ ValPalette

SpecValidate == InitValidate /\ [][NextValidate]_vars

----------------------------------------------------------------------------
(* The session store called on a session file of any content *)

PathA == [dir |-> OutDir, base |-> <<0, <<"x">>, 1>>, edit |-> 0]
PathB == [dir |-> OutDir, base |-> <<0, <<"x">>, 2>>, edit |-> 0]

\* A session as the program writes it: editCount, lastGenerated and a history
SomeState(n, paths, history) ==
    PyDict([last_generated |-> paths, last_description |-> <<"X">>,
            last_model |-> DEFAULT_MODEL, edit_count |-> n, history |-> history])

WellFormedFiles ==
    {MissingFile, JsonFile(DefaultState),
     JsonFile(SomeState(0, <<PathA, PathB>>, <<GenerateEntry(<<PathA, PathB>>, <<"X">>, 0)>>)),
     JsonFile(SomeState(2, <<PathB>>, <<EditEntry(PathA, <<"x">>, 0),
                                        EditEntry(PathB, <<"x">>, 0)>>))}

\* Files that are unreadable, or hold no session record
CorruptFiles ==
    {[kind |-> "garbage"], [kind |-> "unreadable"], [kind |-> "badutf8"],
     JsonFile(PyOther), JsonFile(PyDict(<<>>)),
     JsonFile(PyDict([history |-> <<>>]))}

InitStore ==
    /\ OrchestratorIdle
    /\ ValidatorIdle
    /\ session \in WellFormedFiles \cup CorruptFiles
    /\ sops = <<>>
    /\ PromptIdle

storeFrame == <<files, meta, clock, envKey, nfaults, pc, cmd, loc, last, reqlog,
                vimg, vpc, vresult, vran, ptext, pcalls>>

\* One call of the store: what was on disk, what load_session gave, what the call
\* raised (None when it returned) and what it left on disk.
StoreCall(op, arg, l, r) ==
    /\ Len(sops) < MaxOps
    /\ session' = IF r.raised = None /\ op # "load" THEN save_session(r.state)
                  ELSE session
    /\ sops' = Append(sops, [op |-> op, arg |-> arg, file |-> session, loaded |-> l,
                             raised |-> r.raised,
                             saved |-> IF r.raised = None THEN r.state ELSE PyOther])
    /\ UNCHANGED storeFrame

StoreLoad ==
    LET l == load_session(session) IN StoreCall("load", <<>>, l, l)

StoreGenerate(paths, description, model) ==
    LET l == load_session(session)
        r == IF l.raised # None THEN l
             ELSE after_generate(l.state, paths, description, model, clock)
    IN  StoreCall("generate", paths, l, r)

StoreEdit(path, change) ==
    LET l == load_session(session)
        r == IF l.raised # None THEN l ELSE after_edit(l.state, path, change, clock)
    IN  StoreCall("edit", <<path>>, l, r)

StoreSetKey(key) ==
    LET l == load_session(session)
        r == IF l.raised # None THEN l ELSE after_set_key(l.state, key)
    IN  StoreCall("set-key", <<>>, l, r)

NextStore ==
    \/ StoreLoad
    \/ \E ps \in {<<PathA>>, <<PathA, PathB>>} : StoreGenerate(ps, <<"X">>, DEFAULT_MODEL)
    \/ \E q \in {PathA, PathB} : StoreEdit(q, <<"x">>)
    \/ \E k \in KeyArgs : StoreSetKey(k)

SpecStore == InitStore /\ [][NextStore]_vars


----------------------------------------------------------------------------
(* The prompt compiler called on a text (prompt_compiler.py) *)

\* The pieces the texts are made of
Chunks == {petal, petals, <<"P", "e", "T", "a", "L">>, <<"p">>, <<"s">>, <<"x">>}

RECURSIVE TextsOf(_)
TextsOf(n) ==
    IF n = 0 THEN {<<>>}
    ELSE LET shorter == TextsOf(n - 1)
         IN  shorter \cup {t \o c : t \in shorter, c \in Chunks}

Texts == TextsOf(MaxChunks)

InitPrompt ==
    /\ OrchestratorIdle
    /\ ValidatorIdle
    /\ session = MissingFile
    /\ sops = <<>>
    /\ ptext \in Texts
    /\ pcalls = <<>>

promptFrame == <<session, files, meta, clock, envKey, nfaults, pc, cmd, loc, last,
                 reqlog, vimg, vpc, vresult, vran, sops, ptext>>

\* One call of the compiler, in a process that traverses the banned words in the
\* given order
PromptCall(fn, arg, n, order, out) ==
    /\ Len(pcalls) < MaxCalls
    /\ pcalls' = Append(pcalls, [fn |-> fn, arg |-> arg, n |-> n, order |-> order,
                                 out |-> out])
    /\ UNCHANGED promptFrame

\* build_prompts on the text, called again with the same arguments
CallBuildPrompts(n, order) ==
    /\ IF pcalls = <<>> THEN TRUE
       ELSE pcalls[1].fn = "build_prompts" /\ pcalls[1].n = n
    /\ PromptCall("build_prompts", ptext, n, order, build_prompts(ptext, n, order))

\* _sanitize on the text, or on a text that _sanitize returned
CallSanitize(arg, order) ==
    /\ IF pcalls = <<>> THEN TRUE ELSE pcalls[1].fn = "sanitize"
    /\ PromptCall("sanitize", arg, 1, order, <<sanitize(arg, order)>>)

\* The outputs of the _sanitize calls made so far
Sanitized == {pcalls[i].out[1] : i \in {j \in 1..Len(pcalls) : pcalls[j].fn = "sanitize"}}

NextPrompt ==
    \/ \E n \in 1..MaxPrompts, o \in BannedOrders : CallBuildPrompts(n, o)
    \/ \E o \in BannedOrders : CallSanitize(ptext, o)
    \/ \E t \in Sanitized, o \in BannedOrders : CallSanitize(t, o)

SpecPrompt == InitPrompt /\ [][NextPrompt]_vars

----------------------------------------------------------------------------
(* generate_image called with an api_key argument (openai_client.py) *)

\* Session files with and without a stored key, and files that hold no session
ClientFiles ==
    {MissingFile, JsonFile(DefaultState),
     JsonFile(PyDict(Put(DefaultState.d, "api_key", "sk-session"))),
     JsonFile(PyDict(Put(DefaultState.d, "api_key", ""))),
     [kind |-> "garbage"], [kind |-> "badutf8"], JsonFile(PyOther)}

InitClient ==
    /\ session \in ClientFiles
    /\ envKey \in EnvKeys
    /\ files = <<>>
    /\ meta = <<>>
    /\ clock = 0
    /\ nfaults = 0
    /\ pc = [p \in Procs |-> "idle"]
    /\ cmd = [p \in Procs |-> BlankCmd]
    /\ loc = [p \in Procs |-> BlankLoc]
    /\ last = [p \in Procs |-> None]
    /\ reqlog = [p \in Procs |-> <<>>]
    /\ ValidatorIdle
    /\ PromptIdle
    /\ sops = <<>>

clientFrame == <<session, files, meta, clock, envKey, nfaults, pc, cmd, loc, last,
                 reqlog, vimg, vpc, vresult, vran, ptext, pcalls>>

\* The call in progress, or the last one
ClientBusy == sops # <<>> /\ ~sops[1].done

\* line 48: client = get_client(api_key)
ClientCall(api_key) ==
    /\ ~ClientBusy
    /\ LET r == ResolveKey(api_key, envKey, session)
       IN  sops' = << [op |-> "generate_image", arg |-> api_key,
                       key |-> IF r.raised = None THEN r.state ELSE None,
                       raised |-> r.raised, calls |-> <<>>,
                       done |-> r.raised # None] >>
    /\ UNCHANGED clientFrame

\* lines 51-67: one turn of the retry loop
ClientBackend(outcome) ==
    /\ ClientBusy
    /\ LET attempt == Len(sops[1].calls)
           over == outcome # "APIError" \/ ~MayRetry(attempt)
       IN  sops' = << [sops[1] EXCEPT
                         !.calls = Append(@, outcome),
                         !.done = over,
                         !.raised = IF outcome = "APIError" /\ over THEN "APIError"
                                    ELSE None] >>
    /\ UNCHANGED clientFrame

NextClient ==
    \/ \E k \in ApiKeyArgs : ClientCall(k)
    \/ \E out \in {"good", "APIError"} : ClientBackend(out)

SpecClient == InitClient /\ [][NextClient]_vars

----------------------------------------------------------------------------
(* Two invocations at work on the same output directory *)

\* A fresh output directory, the key in the environment
InitRace ==
    /\ session = MissingFile
    /\ files = <<>>
    /\ meta = <<>>
    /\ clock = 0
    /\ envKey = "sk-env"
    /\ nfaults = 0
    /\ pc = [p \in Procs |-> "idle"]
    /\ cmd = [p \in Procs |-> BlankCmd]
    /\ loc = [p \in Procs |-> BlankLoc]
    /\ last = [p \in Procs |-> None]
    /\ reqlog = [p \in Procs |-> <<>>]
    /\ ValidatorIdle
    /\ PromptIdle
    /\ sops = <<>>

\* A process starts a command whatever the other is doing
MayStart(p) == pc[p] = "idle" /\ Len(History(session)) < MaxHistory

NextRace ==
    \E p \in Procs :
        \/ MayStart(p) /\ \E c \in Changes, s \in Sources, m \in ModelArgs,
                              o \in BannedOrders : CmdEdit(p, c, s, m, o)
        \/ EditCount(p)
        \/ Request(p)
        \/ BackendCall(p, "good")
        \/ UpdateLoad(p)
        \/ UpdateSave(p)
        \/ Return(p)

SpecRace == InitRace /\ [][NextRace]_vars

----------------------------------------------------------------------------
(* Longer runs of commands, the backend answering every call with a good image *)

\* Commands run one at a time, one more than in Spec
CanStartNext == AllIdle /\ Len(History(session)) <= MaxHistory

NextSequence ==
    \/ CanStartNext /\ \E d \in Descriptions, n \in 1..MaxVariants, m \in ModelArgs,
                           o \in BannedOrders : CmdGenerate(1, d, n, m, o)
    \/ CanStartNext /\ \E c \in Changes, s \in Sources, m \in ModelArgs,
                           o \in BannedOrders : CmdEdit(1, c, s, m, o)
    \/ CanStartNext /\ \E k \in KeyArgs : CmdSetKey(1, k)
    \/ EditCount(1)
    \/ Request(1)
    \/ BackendCall(1, "good")
    \/ UpdateLoad(1)
    \/ UpdateSave(1)
    \/ Return(1)
    \/ AllIdle /\ clock < MaxClock /\ Tick

SpecSequence == Init /\ [][NextSequence]_vars

----------------------------------------------------------------------------
(* Commands that end in an error.  The commands of Spec, at one moment of the
   clock, with a backend that may fail once more than in Spec: a flawed image
   followed by the two failed calls of the validation retry's request. *)

FaultBudget == MaxFaults + 1

NextFailure ==
    \/ CanStart /\ \E d \in Descriptions, n \in 1..MaxVariants, m \in ModelArgs,
                       o \in BannedOrders : CmdGenerate(1, d, n, m, o)
    \/ CanStart /\ \E c \in Changes, s \in Sources, m \in ModelArgs,
                       o \in BannedOrders : CmdEdit(1, c, s, m, o)
    \/ CanStart /\ \E k \in KeyArgs : CmdSetKey(1, k)
    \/ EditCount(1)
    \/ Request(1)
    \/ \E out \in Outcomes :
          (out = "good" \/ nfaults < FaultBudget) /\ BackendCall(1, out)
    \/ UpdateLoad(1)
    \/ UpdateSave(1)
    \/ Return(1)

SpecFailure == Init /\ [][NextFailure]_vars

----------------------------------------------------------------------------
(* Properties *)

IsPrefix(a, b) == Len(a) <= Len(b) /\ SubSeq(b, 1, Len(a)) = a

\* The fields of a session record
SessionKeys == {"last_generated", "last_description", "last_model", "edit_count",
                "history"}

IsSessionRecord(v) == IsDict(v) /\ SessionKeys \subseteq DOMAIN v.d

\* The calls of SpecStore that are recordEdit on a session record
EditCalls == {i \in 1..Len(sops) : sops[i].op = "edit"
                                    /\ sops[i].loaded.raised = None
                                    /\ IsSessionRecord(sops[i].loaded.state)}

(* C5: recordEdit, from any session state, adds exactly 1 to editCount, leaves
   lastGenerated as the one-element list of the edit's path and appends one edit
   entry to the history; two calls in a row add 2 and leave the second path. *)
C5_RecordEditTwice ==
    /\ \A i \in EditCalls :
          LET before == sops[i].loaded.state.d
              after == sops[i].saved.d
          IN  /\ sops[i].raised = None
              /\ after["edit_count"] = before["edit_count"] + 1
              /\ after["last_generated"] = <<sops[i].arg[1]>>
              /\ Len(after["history"]) = Len(before["history"]) + 1
              /\ IsPrefix(before["history"], after["history"])
              /\ after["history"][Len(after["history"])].action = "edit"
              /\ after["history"][Len(after["history"])].path = sops[i].arg[1]
    /\ \A i \in EditCalls : i + 1 \in EditCalls =>
          /\ sops[i + 1].saved.d["edit_count"]
                = sops[i].loaded.state.d["edit_count"] + 2
          /\ sops[i + 1].saved.d["last_generated"] = <<sops[i + 1].arg[1]>>
          /\ Len(sops[i + 1].saved.d["history"])
                = Len(sops[i].loaded.state.d["history"]) + 2

\* Two recordEdit calls in a row, on PathA then PathB, from a session with editCount 2
C5_Witness ==
    /\ Len(sops) >= 2
    /\ {1, 2} \subseteq EditCalls
    /\ sops[1].arg = <<PathA>> /\ sops[2].arg = <<PathB>>
    /\ sops[1].loaded.state.d["edit_count"] = 2
    /\ IsDict(session.val) /\ session.val.d["edit_count"] = 4
    /\ session.val.d["last_generated"] = <<PathB>>

\* A session file that is missing, unreadable or holds no session record
NoSessionOnDisk(file) ==
    file.kind # "json" \/ ~IsSessionRecord(file.val)

(* C8: load() never raises; for a missing file and for every unreadable or invalid
   content it returns the default state, so that a following recordGenerate or
   recordEdit completes. *)
C8_LoadNeverRaises ==
    \A i \in 1..Len(sops) :
        /\ sops[i].loaded.raised = None
        /\ NoSessionOnDisk(sops[i].file) => sops[i].loaded.state = DefaultState
        /\ sops[i].op \in {"generate", "edit"} => sops[i].raised = None

\* The errors each check reports on its own, in the order of the checks
SizeErrors(img) ==
    IF img.size = <<1024, 1024>> THEN <<>>
    ELSE << <<"size", img.size[1], img.size[2]>> >>

CornerErrors(img) ==
    LET all == [k \in 1..4 |-> <<"corner", corners[k][2], corners[k][1], img.corners[k]>>]
        Opaque(e) == e[4][4] > 10
    IN  SelectSeq(all, Opaque)

PaletteErrors(img) ==
    LET c == Cardinality({SubSeq(img.data[n], 1, 3) :
                             n \in {m \in DOMAIN img.data : img.data[m][4] > 10}})
    IN  IF c > 20 THEN << <<"too-many-colors", c>> >> ELSE <<>>

(* C10: validate runs size, corners, palette in that order; the corner check runs
   only on a 1024x1024 image, the palette check on every image; the errors are
   the size error, then the corner errors, then the palette error. *)
C10_CheckOrder ==
    /\ IsPrefix(vran, <<"size", "corners", "palette">>)
          \/ IsPrefix(vran, <<"size", "palette">>)
    /\ vpc = "done" =>
          /\ vran = IF vimg.size = <<1024, 1024>>
                    THEN <<"size", "corners", "palette">>
                    ELSE <<"size", "palette">>
          /\ vresult.errors = SizeErrors(vimg)
                \o (IF vimg.size = <<1024, 1024>> THEN CornerErrors(vimg) ELSE <<>>)
                \o PaletteErrors(vimg)
          /\ vresult = validate(vimg)

\* A 512x512 image with an opaque corner and 25 colours: no corner check, the
\* size error and then the palette error
C10_Witness ==
    /\ vpc = "done"
    /\ vimg.size = <<512, 512>>
    /\ vimg.corners[1][4] = 255
    /\ vran = <<"size", "palette">>
    /\ vresult.errors = << <<"size", 512, 512>>, <<"too-many-colors", 25>> >>

----------------------------------------------------------------------------
(* Properties of the generate and edit commands (process 1 of Spec) *)

\* The generation requests of the running command, and those of variant v
\* (an edit has the single variant 0)
Requests == reqlog[1]

Reqs(v) == {k \in 1..Len(Requests) : Requests[k].variant = v}

VariantsOf(c) ==
    IF c.kind = "generate" THEN 1..c.variants
    ELSE IF c.kind = "edit" THEN {0} ELSE {}

FirstReq(v) == CHOOSE k \in Reqs(v) : \A j \in Reqs(v) : k <= j
FinalReq(v) == CHOOSE k \in Reqs(v) : \A j \in Reqs(v) : j <= k

\* The prompt compiled for variant v, before any strengthening
OriginalPrompt(v) ==
    IF cmd[1].kind = "generate" THEN loc[1].prompts[v] ELSE loc[1].prompt

\* The command is past its generation requests
PastRequests == pc[1] \in {"update_load", "update_save", "done"}

(* C1: per variant of a generate, and for an edit: the first request carries the
   compiled prompt; when the first saved image validates ok no second request is
   made; when it does not, exactly one further request is made, with the prompt
   followed by the strengthened suffix; there is never a third request. *)
C1_RetryOnce ==
    /\ \A k \in 1..Len(Requests) : Requests[k].variant \in VariantsOf(cmd[1])
    /\ \A v \in VariantsOf(cmd[1]) :
          /\ Cardinality(Reqs(v)) <= 2
          /\ Reqs(v) # {} => Requests[FirstReq(v)].prompt = OriginalPrompt(v)
          /\ Cardinality(Reqs(v)) = 2 =>
                /\ Requests[FirstReq(v)].valid = "bad"
                /\ Requests[FinalReq(v)].prompt
                      = OriginalPrompt(v) \o <<"NL", "NL", "CRITICAL REMINDER">>
          /\ (Cardinality(Reqs(v)) = 1 /\ Requests[FirstReq(v)].valid = "bad") =>
                (pc[1] = "request" /\ loc[1].i = v /\ loc[1].phase = "retry")
          /\ PastRequests =>
                Cardinality(Reqs(v))
                    = IF Requests[FirstReq(v)].valid = "bad" THEN 2 ELSE 1

\* A variant whose image failed validation twice, the command going on to the
\* session update after the second request
C1_Witness ==
    /\ PastRequests
    /\ \E v \in VariantsOf(cmd[1]) :
          /\ Cardinality(Reqs(v)) = 2
          /\ Requests[FirstReq(v)].valid = "bad"
          /\ Requests[FinalReq(v)].valid = "bad"

\* The backend answers the validation retry of the running command
RetryAnswered ==
    /\ pc[1] = "backend"
    /\ loc[1].phase = "retry"
    /\ reqlog'[1][Len(Requests)].outcome = "ok"

\* A step that answers a validation retry creates no file and changes only the
\* file of the first attempt
RetryInPlace ==
    RetryAnswered =>
        /\ DOMAIN files' = DOMAIN files
        /\ \A f \in DOMAIN files :
              f # Requests[FirstReq(loc[1].i)].path => files'[f] = files[f]

\* After an answered retry the variant has one path, which holds the retry's bytes;
\* the final validation is ok when the retry's image is a valid one
RetrySamePath ==
    \A v \in VariantsOf(cmd[1]) :
        (Cardinality(Reqs(v)) = 2 /\ Requests[FinalReq(v)].outcome = "ok") =>
            /\ Requests[FinalReq(v)].path = Requests[FirstReq(v)].path
            /\ Requests[FinalReq(v)].path \in DOMAIN files
            /\ files[Requests[FinalReq(v)].path] = Requests[FinalReq(v)].bytes
            /\ Requests[FinalReq(v)].bytes.img \in {"good", "warn"} =>
                  Requests[FinalReq(v)].valid = "ok"

(* C2: a validation retry writes the new bytes to the path of the first attempt:
   after a first invalid image and a valid retry image the variant has exactly one
   artifact, whose content is the retry's bytes, and its final validation is ok. *)
C2_RetryOverwrites == []RetrySamePath /\ [][RetryInPlace]_vars

\* A variant whose first image was invalid and whose retry image is valid: one
\* path, holding the bytes generated from the strengthened prompt
C2_Witness ==
    \E v \in VariantsOf(cmd[1]) :
        /\ Cardinality(Reqs(v)) = 2
        /\ Requests[FirstReq(v)].valid = "bad"
        /\ Requests[FinalReq(v)].valid = "ok"
        /\ Requests[FirstReq(v)].bytes.img = "small"
        /\ files[Requests[FirstReq(v)].path].img = "good"
        /\ files[Requests[FirstReq(v)].path].prompt = Requests[FinalReq(v)].prompt

(* C3: a generate command whose backend calls succeed saves exactly numVariants
   artifacts, whatever the validation outcomes; the session's lastGenerated is the
   saved paths in variant order and editCount is 0; an artifact that still fails
   validation after the retry is on disk and its path is included. *)
C3_GenerateSavesAll ==
    (cmd[1].kind = "generate" /\ pc[1] = "done") =>
        LET n == cmd[1].variants
            paths == loc[1].saved_paths
            written == {Requests[k].path : k \in 1..Len(Requests)}
        IN  /\ Len(paths) = n
            /\ Cardinality(written) = n
            /\ written = {paths[v] : v \in 1..n}
            /\ \A v \in 1..n :
                  /\ paths[v] = Requests[FinalReq(v)].path
                  /\ paths[v].base[3] = v
                  /\ paths[v] \in DOMAIN files
                  /\ files[paths[v]] = Requests[FinalReq(v)].bytes
            /\ session.kind = "json"
            /\ session.val.d["last_generated"] = paths
            /\ session.val.d["edit_count"] = 0

\* A generate of two variants, the second still failing validation after its retry
C3_Witness ==
    /\ cmd[1].kind = "generate" /\ pc[1] = "done"
    /\ cmd[1].variants = 2
    /\ Cardinality(Reqs(2)) = 2
    /\ Requests[FinalReq(2)].valid = "bad"
    /\ Len(session.val.d["last_generated"]) = 2

\* lastGenerated of the session on disk, empty when there is no session file
LastGeneratedOnDisk ==
    IF session.kind = "json" THEN session.val.d["last_generated"] ELSE <<>>

\* The path names a file
OnDisk(path) == path \in DOMAIN files \/ path = ExternalPath

\* An edit command starts: its source is resolved, or the command fails
EditStarts ==
    pc[1] = "idle" /\ cmd'[1].kind = "edit" =>
        LET given == cmd'[1].source
            nosource == given = NoPath /\ LastGeneratedOnDisk = <<>>
            resolved == IF given # NoPath THEN given ELSE LastGeneratedOnDisk[1]
        IN  /\ nosource => (pc'[1] = "failed" /\ last'[1] = "no_source")
            /\ (~nosource /\ ~OnDisk(resolved)) =>
                  (pc'[1] = "failed" /\ last'[1] = "source_not_found")
            /\ (~nosource /\ OnDisk(resolved)) =>
                  (pc'[1] = "edit_count" /\ loc'[1].source = resolved)
            /\ pc'[1] = "failed" =>
                  (session' = session /\ files' = files /\ meta' = meta
                     /\ reqlog'[1] = <<>>)

\* An edit that failed for want of a source has made no generation request
NoSourceNoRequest ==
    (pc[1] = "failed" /\ last[1] \in {"no_source", "source_not_found"}) =>
        Requests = <<>>

(* C4: an edit takes the explicit path when one is given, else lastGenerated[0] of
   the loaded session; it fails with no-source when neither exists and with
   source-not-found when the resolved path is not on disk; in both failures no
   generation call is made, no file is written and the session is unchanged. *)
C4_EditSource == []NoSourceNoRequest /\ [][EditStarts]_vars

\* An edit on a path that names no file, after a generate: it failed and nothing
\* was requested
C4_Witness ==
    /\ pc[1] = "failed" /\ last[1] = "source_not_found"
    /\ cmd[1].kind = "edit" /\ cmd[1].source = AbsentPath
    /\ Len(LastGeneratedOnDisk) = 2
    /\ Requests = <<>>

\* editCount of the session on disk, 0 when there is no session file
EditCountOnDisk ==
    IF session.kind = "json" THEN session.val.d["edit_count"] ELSE 0

\* The edits recorded after the last generate
RECURSIVE EditsSinceGenerate(_)
EditsSinceGenerate(h) ==
    IF h = <<>> THEN 0
    ELSE IF h[Len(h)].action = "generate" THEN 0
    ELSE 1 + EditsSinceGenerate(SubSeq(h, 1, Len(h) - 1))

\* A command of the given kind completes in this step
Completes(kind) == cmd'[1].kind = kind /\ pc[1] # "done" /\ pc'[1] = "done"

CountFollowsCommands ==
    /\ Completes("generate") =>
          (EditCountOnDisk' = 0 /\ LastGeneratedOnDisk' = loc[1].saved_paths)
    /\ Completes("edit") => EditCountOnDisk' = EditCountOnDisk + 1
    /\ ~(Completes("generate") \/ Completes("edit")) =>
          (EditCountOnDisk' = EditCountOnDisk
             /\ LastGeneratedOnDisk' = LastGeneratedOnDisk)

(* C6: after any sequence of completed generate, edit and set-key commands run one
   at a time, editCount is the number of edits completed since the last completed
   generate: a generate sets it to 0 and replaces lastGenerated, an edit adds 1. *)
C6_EditCount ==
    /\ [](EditCountOnDisk = EditsSinceGenerate(History(session)))
    /\ [][CountFollowsCommands]_vars

\* An edit and then a generate: the count is back to 0
C6_Witness ==
    /\ Len(History(session)) = 2
    /\ History(session)[1].action = "edit"
    /\ History(session)[2].action = "generate"
    /\ EditCountOnDisk = 0
    /\ Len(LastGeneratedOnDisk) = 2

HistoryGrows ==
    /\ IsPrefix(History(session), History(session)')
    /\ Len(History(session)')
          = Len(History(session))
              + (IF Completes("generate") \/ Completes("edit") THEN 1 ELSE 0)

(* C7: the history is an append-only log: over every step of the generate, edit
   and set-key commands the history before is a prefix of the history after, a
   completed generate or edit appends exactly one entry, and nothing else changes
   the history. *)
C7_HistoryAppendOnly == [][HistoryGrows]_vars

\* A generate and then an edit, on a session that a set-key command wrote first
C7_Witness ==
    /\ Len(History(session)) = 2
    /\ History(session)[1].action = "generate"
    /\ History(session)[2].action = "edit"
    /\ pc[1] = "done" /\ cmd[1].kind = "edit"
    /\ HasKey(session.val, "api_key")

(* C9: each generation request makes at most two backend calls, the second only
   after the first failed; a second failure is fatal for the variant or edit; when
   that happens at variant k of a generate, the artifacts saved for the variants
   before k are on disk with the bytes that were saved. *)
C9_BackendRetryOnce ==
    \A k \in 1..Len(Requests) :
        LET calls == Requests[k].calls
        IN  /\ Len(calls) <= 2
            /\ Len(calls) = 2 => calls[1] = "APIError"
            /\ calls = <<"APIError">> =>
                  (Requests[k].outcome = "pending" /\ pc[1] = "backend"
                     /\ k = Len(Requests))
            /\ calls = <<"APIError", "APIError">> <=> Requests[k].outcome = "fatal"
            /\ Requests[k].outcome = "fatal" =>
                  /\ pc[1] = "failed" /\ last[1] = "backend_error"
                  /\ k = Len(Requests)
                  /\ \A v \in VariantsOf(cmd[1]) : v < Requests[k].variant =>
                        /\ Reqs(v) # {}
                        /\ Requests[FinalReq(v)].outcome = "ok"
                        /\ Requests[FinalReq(v)].path \in DOMAIN files
                        /\ files[Requests[FinalReq(v)].path]
                              = Requests[FinalReq(v)].bytes

\* The backend failed twice at variant 2 of a generate; variant 1 is on disk
C9_Witness ==
    /\ cmd[1].kind = "generate"
    /\ Len(Requests) = 2
    /\ Requests[2].variant = 2
    /\ Requests[2].outcome = "fatal"
    /\ Requests[1].path \in DOMAIN files

----------------------------------------------------------------------------
(* Properties of the checks of the validator (SpecValidate) *)

CornerLabels == <<"top-left", "top-right", "bottom-left", "bottom-right">>

\* The errors of the result that name corner k
ErrorsNaming(k) ==
    {n \in 1..Len(vresult.errors) :
        vresult.errors[n][1] = "corner" /\ vresult.errors[n][2] = CornerLabels[k]}

\* The corner check has run on the image
CornersChecked == vimg.size = <<1024, 1024>> /\ vpc \in {"palette", "done"}

(* C11: on a 1024x1024 image the corner check records exactly one error for each
   corner pixel whose alpha is above 10 and none for a corner whose alpha is at
   most 10, whatever its RGB value; the error names the corner; the result is not
   ok when a corner has alpha above 10. *)
C11_CornerErrors ==
    CornersChecked =>
        /\ \A k \in 1..4 :
              Cardinality(ErrorsNaming(k)) = IF vimg.corners[k][4] > 10 THEN 1 ELSE 0
        /\ \A n \in 1..Len(vresult.errors) :
              vresult.errors[n][1] = "corner" =>
                  \E k \in 1..4 : /\ n \in ErrorsNaming(k)
                                  /\ vresult.errors[n][4] = vimg.corners[k]
        /\ (\E k \in 1..4 : vimg.corners[k][4] > 10) =>
              ~(vresult.passed /\ vresult.errors = <<>>)

\* One opaque black corner, the others at alpha 10 or 0: one error, naming the
\* top-left corner, and a result that is not ok
C11_Witness ==
    /\ CornersChecked /\ vpc = "done"
    /\ vimg.corners = <<<<0, 0, 0, 255>>, <<255, 255, 255, 10>>, Transparent, Transparent>>
    /\ Cardinality(ErrorsNaming(1)) = 1
    /\ \A k \in 2..4 : ErrorsNaming(k) = {}
    /\ ~vresult.passed

\* The distinct RGB triples among the pixels of the downsample with alpha > 10
DistinctOpaque ==
    Cardinality({SubSeq(vimg.data[n], 1, 3) :
                    n \in {m \in DOMAIN vimg.data : vimg.data[m][4] > 10}})

\* The palette check runs in this step
PaletteStep == vpc = "palette" /\ vpc' = "done"

PaletteClassifies ==
    PaletteStep =>
        LET c == DistinctOpaque
        IN  /\ c <= 5 => vresult' = vresult
            /\ (6 <= c /\ c <= 20) =>
                  /\ vresult'.warnings = Append(vresult.warnings, <<"color-count", c>>)
                  /\ vresult'.errors = vresult.errors
                  /\ vresult'.passed = vresult.passed
            /\ c > 20 =>
                  /\ vresult'.errors = Append(vresult.errors, <<"too-many-colors", c>>)
                  /\ vresult'.warnings = vresult.warnings
                  /\ ~vresult'.passed

(* C12: with c the number of distinct RGB triples among the pixels with alpha > 10
   of the downsample, the palette check adds nothing when c <= 5; adds exactly one
   warning citing c, no error, and leaves the verdict as it was when 6 <= c <= 20;
   adds exactly one error citing c and makes the result not ok when c > 20. *)
C12_PaletteThresholds == [][PaletteClassifies]_vars

\* A clean 1024x1024 image of 12 opaque colours: ok, with one warning citing 12
C12_Witness ==
    /\ vpc = "done"
    /\ DistinctOpaque = 12
    /\ vresult.warnings = << <<"color-count", 12>> >>
    /\ vresult.errors = <<>>
    /\ vresult.passed

\* passed is not set back to true by a step of the pass
PassedStaysFalse == ~vresult.passed => ~vresult'.passed

\* The verdict is ok exactly when passed is true and there is no error
OkIsPassedAndNoErrors ==
    /\ vpc = "size" => vresult.passed
    /\ ok(vresult) <=> (vresult.passed /\ Len(vresult.errors) = 0)
    /\ (vresult.passed /\ vresult.errors = <<>> /\ vresult.warnings # <<>>) => ok(vresult)

(* C13: within one validation pass passed starts true and, once a check has set it
   false, no later check sets it back; ok is true exactly when passed is true and
   errors is empty, so a result with warnings only is ok. *)
C13_PassedAndOk == []OkIsPassedAndNoErrors /\ [][PassedStaysFalse]_vars

\* A 512x512 image of 12 colours: the size check set passed false, the palette
\* check added its warning after it, and the result is not ok
C13_Witness ==
    /\ vpc = "done"
    /\ vimg.size = <<512, 512>>
    /\ vran = <<"size", "palette">>
    /\ vresult.warnings # <<>>
    /\ ~vresult.passed
    /\ ~ok(vresult)

----------------------------------------------------------------------------
(* Properties of the prompt compiler (SpecPrompt) *)

\* The calls of build_prompts and of _sanitize made so far
BuildCalls == {i \in 1..Len(pcalls) : pcalls[i].fn = "build_prompts"}
SanitizeCalls == {i \in 1..Len(pcalls) : pcalls[i].fn = "sanitize"}

\* The style guides in their order
GuideCycle == <<"GUIDE-balanced", "GUIDE-layered", "GUIDE-crescent">>

(* C14: for every description and every numVariants >= 1, buildPrompts returns
   exactly numVariants prompts; prompt i (from 0) is the fixed preamble verbatim,
   the style guide at index i mod 3, and the sanitized description after
   "SUBJECT: ". *)
C14_BuildPrompts ==
    \A c \in BuildCalls :
        /\ Len(pcalls[c].out) = pcalls[c].n
        /\ \A k \in 1..pcalls[c].n :
              pcalls[c].out[k]
                 = <<"PREAMBLE", "NL", GuideCycle[((k - 1) % 3) + 1], "NL", "NL",
                     "SUBJECT: ">> \o sanitize(pcalls[c].arg, pcalls[c].order)

\* Four prompts for a description with a banned word: the fourth has the first
\* guide again, and the description with the word replaced
C14_Witness ==
    /\ Len(pcalls) >= 1
    /\ pcalls[1].fn = "build_prompts"
    /\ pcalls[1].n = 4
    /\ pcalls[1].arg = <<"x">> \o petal
    /\ pcalls[1].out[4] = <<"PREAMBLE", "NL", "GUIDE-balanced", "NL", "NL",
                            "SUBJECT: ", "x", "rounded leaf-like form">>

(* C15: buildPrompts is a pure function: called with the same description and
   numVariants it returns the same sequence of prompts on every call and in every
   run, whatever the order in which the set of banned words is traversed. *)
C15_BuildPromptsPure ==
    \A c1 \in BuildCalls, c2 \in BuildCalls :
        (pcalls[c1].arg = pcalls[c2].arg /\ pcalls[c1].n = pcalls[c2].n) =>
            pcalls[c1].out = pcalls[c2].out

\* The word occurs in the text, letter case aside
Occurs(word, text) ==
    \E k \in 1..Len(text) :
        /\ k + Len(word) - 1 <= Len(text)
        /\ \A j \in 1..Len(word) : Lower(text[k + j - 1]) = word[j]

(* C16: sanitization is idempotent: sanitizing a text that sanitization returned
   gives that text back, and no banned term, matched as a substring whatever the
   letter case, remains in a sanitized text. *)
C16_SanitizeIdempotent ==
    /\ \A c \in SanitizeCalls :
          ~Occurs(<<"p", "e", "t", "a", "l">>, pcalls[c].out[1])
             /\ ~Occurs(<<"p", "e", "t", "a", "l", "s">>, pcalls[c].out[1])
    /\ \A c1 \in SanitizeCalls, c2 \in SanitizeCalls :
          pcalls[c2].arg = pcalls[c1].out[1] => pcalls[c2].out[1] = pcalls[c2].arg

\* A text with two banned words, sanitized and then sanitized again
C16_Witness ==
    /\ Len(pcalls) = 2
    /\ ptext = <<"P", "e", "T", "a", "L">> \o petals
    /\ pcalls[1].fn = "sanitize" /\ pcalls[1].arg = ptext
    /\ pcalls[2].fn = "sanitize" /\ pcalls[2].arg = pcalls[1].out[1]
    /\ pcalls[2].arg # ptext
    /\ pcalls[2].out = pcalls[1].out

----------------------------------------------------------------------------
(* Properties of the credential lookup (SpecClient) *)

Present(key) == key # None /\ key # ""

\* The key stored in the session file, None when the file stores none
StoredKey ==
    IF session.kind = "json" /\ session.val.t = "dict"
          /\ "api_key" \in DOMAIN session.val.d
    THEN session.val.d["api_key"] ELSE None

(* C17: the credential of a generation call is the explicit argument when present,
   otherwise the environment variable when present, otherwise the key stored in
   the session; when none of the three is present a configuration error is raised
   before any backend call is made. *)
C17_CredentialOrder ==
    sops # <<>> =>
        LET call == sops[1]
        IN  /\ Present(call.arg) => call.key = call.arg
            /\ (~Present(call.arg) /\ Present(envKey)) => call.key = envKey
            /\ (~Present(call.arg) /\ ~Present(envKey) /\ Present(StoredKey)) =>
                  call.key = StoredKey
            /\ (~Present(call.arg) /\ ~Present(envKey) /\ ~Present(StoredKey)) =>
                  (call.raised = "ValueError" /\ call.calls = <<>> /\ call.done)
            /\ call.calls # <<>> => Present(call.key)

----------------------------------------------------------------------------
(* Properties of the edit command's output (Spec) *)

\* The requests of the running edit that the backend answered
AnsweredEdits ==
    IF cmd[1].kind = "edit"
    THEN {k \in 1..Len(Requests) : Requests[k].outcome = "ok"} ELSE {}

\* The edit's file is <base>_edit<N>.png in the output directory, base being the
\* source's stem without its _edit<digits> suffix, and its sidecar names the source
EditNamed ==
    \A k \in AnsweredEdits :
        /\ Requests[k].path.dir = "out"
        /\ Requests[k].path.base = loc[1].source.base
        /\ Requests[k].path.edit = loc[1].edit_num
        /\ Requests[k].path \in DOMAIN files
        /\ Requests[k].path \in DOMAIN meta
        /\ meta[Requests[k].path].parent_image = loc[1].source
        /\ pc[1] # "done" =>
              loc[1].source = IF cmd[1].source # NoPath THEN cmd[1].source
                              ELSE LastGeneratedOnDisk[1]

\* N is the editCount the edit found plus 1, and the editCount it leaves
EditNumbered ==
    /\ (pc[1] = "edit_count" /\ pc'[1] = "request") =>
          loc'[1].edit_num = EditCountOnDisk + 1
    /\ Completes("edit") =>
          (loc[1].edit_num = EditCountOnDisk + 1
             /\ EditCountOnDisk' = loc[1].edit_num)

(* C18: an edit is saved as <base>_edit<N>.png, base being the source's stem with
   a trailing _edit<digits> removed and N the session's editCount before the edit
   plus 1; its sidecar has parentImage equal to the resolved source path; after
   the edit the session's editCount is N. *)
C18_EditNaming == []EditNamed /\ [][EditNumbered]_vars

\* An edit of the first edit's output: the source is ..._edit1.png, the second
\* edit is saved as ..._edit2.png with the first as its parent
C18_Witness ==
    /\ cmd[1].kind = "edit" /\ pc[1] = "done"
    /\ loc[1].source.edit = 1
    /\ loc[1].path.edit = 2
    /\ loc[1].path.base = loc[1].source.base
    /\ meta[loc[1].path].parent_image = loc[1].source
    /\ EditCountOnDisk = 2

----------------------------------------------------------------------------
(* Properties of concurrent commands (SpecRace) *)

\* Process p writes the session file of its edit in this step
EditSaves(p) == cmd[p].kind = "edit" /\ pc[p] = "update_save" /\ pc'[p] = "done"

\* What the writer leaves is what it loaded with its own entry and its own count,
\* whatever was written to the file since it loaded
LastWriterWins ==
    \A p \in Procs :
        EditSaves(p) =>
            /\ History(session)'
                  = Append(loc[p].state.d["history"],
                           [action |-> "edit", change |-> cmd[p].change,
                            path |-> loc[p].path, timestamp |-> clock])
            /\ EditCountOnDisk' = loc[p].state.d["edit_count"] + 1
            /\ LastGeneratedOnDisk' = <<loc[p].path>>

(* C19: the session update is an unlocked read-modify-write: when two edits run
   concurrently on one output directory there is an interleaving in which the
   later write overwrites the earlier one, the history holding one of the two
   entries and editCount having risen by 1 instead of 2. *)
C19_LastWriterWins == [][LastWriterWins]_vars

\* Two edits, started in a fresh directory, have both completed: the history holds
\* one entry and editCount is 1
C19_Witness ==
    /\ \A p \in Procs : cmd[p].kind = "edit" /\ pc[p] = "done"
    /\ Len(History(session)) = 1
    /\ EditCountOnDisk = 1
    /\ History(session)[1].path = loc[1].path \/ History(session)[1].path = loc[2].path

----------------------------------------------------------------------------
(* Properties of sequences of commands (SpecSequence) *)

\* The running edit saves its image in this step
EditWrites ==
    /\ cmd[1].kind = "edit"
    /\ pc[1] = "backend"
    /\ loc[1].phase = "first"
    /\ reqlog'[1][Len(Requests)].outcome = "ok"

\* The file the edit saves is a new one, and not its source
EditPathFresh ==
    EditWrites =>
        /\ loc'[1].path \notin DOMAIN files
        /\ loc'[1].path # loc[1].source

(* C20: after any sequence of generate and edit commands an edit never writes its
   output to a path that holds an artifact of an earlier command, and never to the
   path of its own source image. *)
C20_EditPathFresh == [][EditPathFresh]_vars

----------------------------------------------------------------------------
(* Commands that end in an error (process 1 of SpecFailure) *)

\* How a command ends on a backend error (an APIError after the retry of the
\* call) and on a configuration error (the ValueError of get_client)
ErrorEndings == {"backend_error", "ValueError"}

EndedInError == pc[1] = "failed" /\ last[1] \in ErrorEndings

\* The session file is written by a generate or an edit in one step only, the one
\* that completes the command: every other step of the command, from its start to
\* the step on which it ends in an error, leaves the file as it was
SessionKept ==
    (cmd'[1].kind \in {"generate", "edit"} /\ pc'[1] # "done") =>
        session' = session

\* The step on which a command ends in a backend or configuration error changes
\* neither the session nor the files
ErrorStep ==
    (pc[1] # "failed" /\ pc'[1] = "failed" /\ last'[1] \in ErrorEndings) =>
        /\ session' = session
        /\ files' = files
        /\ meta' = meta

\* The last answered request of the running command that wrote the path
FinalAnswered(path) ==
    CHOOSE k \in 1..Len(Requests) :
        /\ Requests[k].outcome = "ok" /\ Requests[k].path = path
        /\ \A j \in 1..Len(Requests) :
              (Requests[j].outcome = "ok" /\ Requests[j].path = path) => j <= k

\* The artifacts the command wrote before its error are on disk, with the bytes
\* of the last answered request for their path
ArtifactsRemain ==
    EndedInError =>
        \A k \in 1..Len(Requests) :
            Requests[k].outcome = "ok" =>
                /\ Requests[k].path \in DOMAIN files
                /\ Requests[k].path \in DOMAIN meta
                /\ files[Requests[k].path] = Requests[FinalAnswered(Requests[k].path)].bytes

(* C21: a generate or edit command that ends in a backend or configuration error,
   at any variant and in the first request or in the validation retry, leaves the
   session file exactly as it was before the command (lastGenerated,
   lastDescription, lastModel, editCount and history unchanged), while the
   artifacts it wrote before the error remain on disk. *)
C21_SessionKeptOnError ==
    /\ []ArtifactsRemain
    /\ [][SessionKept]_vars
    /\ [][ErrorStep]_vars

\* A generate of two variants that ends in a backend error during the validation
\* retry of its second variant, after an earlier command recorded a history entry:
\* the first variant's artifact and the flawed second one are on disk
C21_Witness ==
    /\ EndedInError
    /\ last[1] = "backend_error"
    /\ cmd[1].kind = "generate"
    /\ loc[1].i = 2
    /\ loc[1].phase = "retry"
    /\ Len(History(session)) >= 1
    /\ Cardinality({Requests[k].path : k \in {j \in 1..Len(Requests) : Requests[j].outcome = "ok"}}) = 2

----------------------------------------------------------------------------
(* The sidecar records (Spec) *)

(* C22: for every artifact saved by generate or edit, the compiled_prompt of its
   sidecar record is the prompt that was sent to the backend to produce the bytes
   now stored at the artifact's path, also when those bytes come from the
   strengthened-prompt retry. *)
C22_SidecarPrompt ==
    \A path \in DOMAIN meta :
        /\ path \in DOMAIN files
        /\ meta[path].compiled_prompt = files[path].prompt

====
